---------------------------- MODULE Spec2Model ----------------------------
(***************************************************************************)
(* Z.ai Vision Suite: the Gradio front end (webapp/app.py) and the         *)
(* Streamlit front end (webapp/app_streamlit.py).                          *)
(*                                                                         *)
(* Texts are sequences of tokens (strings): an f-string is the sequence of *)
(* its literal pieces and its interpolated values.  File names and base64  *)
(* payloads are sequences of one-character strings, bytes are 0..255.      *)
(***************************************************************************)
EXTENDS Integers, Sequences, FiniteSets, TLC

(***************************************************************************)
(* Bounds of the model.                                                    *)
(***************************************************************************)
\* usage.total_tokens of a response is drawn from 1..MaxTokens
MaxTokens == 2
\* the files given to the path-based encoder alone hold at most MaxData bytes
MaxData == 2

(***************************************************************************)
(* Program constants.                                                      *)
(***************************************************************************)
\* requests.post(..., timeout=60)
TIMEOUT == 60

\* no image supplied (None / no uploaded file)
None == [isNone |-> TRUE]

(***************************************************************************)
(* Python string helpers used by the encoders.                             *)
(***************************************************************************)
\* str.rfind(c), 1-based; 0 when c does not occur (Python's -1)
rfind(s, c) ==
    LET hits == {i \in 1..Len(s) : s[i] = c}
    IN  IF hits = {} THEN 0 ELSE CHOOSE i \in hits : \A j \in hits : j <= i

UpperToLower ==
    [A |-> "a", B |-> "b", C |-> "c", D |-> "d", E |-> "e", F |-> "f",
     G |-> "g", H |-> "h", I |-> "i", J |-> "j", K |-> "k", L |-> "l",
     M |-> "m", N |-> "n", O |-> "o", P |-> "p", Q |-> "q", R |-> "r",
     S |-> "s", T |-> "t", U |-> "u", V |-> "v", W |-> "w", X |-> "x",
     Y |-> "y", Z |-> "z"]

\* str.lower()
lower(s) ==
    [i \in 1..Len(s) |->
        IF s[i] \in DOMAIN UpperToLower THEN UpperToLower[s[i]] ELSE s[i]]

\* PurePath.name: the final path component
PathName(path) == SubSeq(path, rfind(path, "/") + 1, Len(path))

\* PurePath.suffix: from the last dot of the name, unless the name starts
\* with that dot or ends with it
PathSuffix(path) ==
    LET name == PathName(path)
        i    == rfind(name, ".")
    IN  IF 1 < i /\ i < Len(name) THEN SubSeq(name, i, Len(name)) ELSE <<>>

(***************************************************************************)
(* base64.b64encode                                                        *)
(***************************************************************************)
B64Alphabet ==
    << "A","B","C","D","E","F","G","H","I","J","K","L","M","N","O","P",
       "Q","R","S","T","U","V","W","X","Y","Z","a","b","c","d","e","f",
       "g","h","i","j","k","l","m","n","o","p","q","r","s","t","u","v",
       "w","x","y","z","0","1","2","3","4","5","6","7","8","9","+","/" >>

B64Char(n) == B64Alphabet[(n % 64) + 1]

RECURSIVE b64encode(_)
b64encode(bytes) ==
    IF Len(bytes) = 0 THEN <<>>
    ELSE IF Len(bytes) = 1 THEN
        LET n == bytes[1] * 65536
        IN  << B64Char(n \div 262144), B64Char(n \div 4096), "=", "=" >>
    ELSE IF Len(bytes) = 2 THEN
        LET n == bytes[1] * 65536 + bytes[2] * 256
        IN  << B64Char(n \div 262144), B64Char(n \div 4096),
               B64Char(n \div 64), "=" >>
    ELSE
        LET n == bytes[1] * 65536 + bytes[2] * 256 + bytes[3]
        IN  << B64Char(n \div 262144), B64Char(n \div 4096),
               B64Char(n \div 64), B64Char(n) >>
            \o b64encode(SubSeq(bytes, 4, Len(bytes)))

(***************************************************************************)
(* Outcomes of a Python call: a returned value or a raised exception.      *)
(* str(e) of the exception is the token sequence msg.                      *)
(***************************************************************************)
Return(v) == [raised |-> FALSE, kind |-> "return", value |-> v, msg |-> <<>>]
Raise(kind, msg) == [raised |-> TRUE, kind |-> kind, value |-> <<>>, msg |-> msg]

(***************************************************************************)
(* app.py: encode_image_to_base64                                          *)
(***************************************************************************)
mime_types ==
    (<<".", "j", "p", "g">>      :> "image/jpeg") @@
    (<<".", "j", "p", "e", "g">> :> "image/jpeg") @@
    (<<".", "p", "n", "g">>      :> "image/png")  @@
    (<<".", "g", "i", "f">>      :> "image/gif")  @@
    (<<".", "w", "e", "b", "p">> :> "image/webp")

\* the suffix is looked up as typed, without .lower()
mime_type_sensitive(image_path) ==
    LET ext == PathSuffix(image_path)
    IN  IF ext \in DOMAIN mime_types THEN mime_types[ext] ELSE "image/jpeg"

\* the mime type detection of encode_image_to_base64
mime_type(image_path) ==
    LET ext == lower(PathSuffix(image_path))
    IN  IF ext \in DOMAIN mime_types THEN mime_types[ext] ELSE "image/jpeg"

\* a file on disk: path, whether open() succeeds, its bytes
encode_image_to_base64(file) ==
    IF ~file.readable
    THEN Raise("gr.Error", <<"Failed to read image: ", "[Errno 2] No such file or directory">>)
    ELSE Return(<<"data:", mime_type(file.path), ";base64,">> \o b64encode(file.data))


(***************************************************************************)
(* The remote API: what one POST to {API_URL}/chat/completions can do.     *)
(***************************************************************************)
\* a parsed JSON body (response.json()), or Python's None
Body(hasChoices, choices, hasUsage, hasTotal, total) ==
    [isNone |-> FALSE, hasChoices |-> hasChoices, choices |-> choices,
     hasUsage |-> hasUsage, hasTotal |-> hasTotal, total_tokens |-> total]

NoneResult ==
    [isNone |-> TRUE, hasChoices |-> FALSE, choices |-> <<>>,
     hasUsage |-> FALSE, hasTotal |-> FALSE, total_tokens |-> 0]

\* message.content of a choice
Contents == { <<"A cat on a mat.">>, <<"INVOICE 42">> }

\* the choices list of a complete answer: one choice, or two
ChoiceLists == { << <<"A cat on a mat.">> >>, << <<"INVOICE 42">>, <<"A cat on a mat.">> >> }

ErrorBody == Body(FALSE, <<>>, FALSE, FALSE, 0)                  \* {"error": ...}

Bodies ==
    {Body(TRUE, ch, TRUE, TRUE, n) : ch \in ChoiceLists, n \in 1..MaxTokens}
    \cup {Body(TRUE, ch, FALSE, FALSE, 0) : ch \in ChoiceLists}  \* no usage
    \cup {Body(TRUE, << <<"A cat on a mat.">> >>, TRUE, FALSE, 0)} \* usage: {}
    \cup {Body(TRUE, <<>>, TRUE, TRUE, 1)}                       \* choices: []
    \cup {ErrorBody}
    \cup {Body(FALSE, <<>>, TRUE, TRUE, 1)}                      \* usage only

\* 2xx; 4xx and 5xx
OkStatuses == {200}
ErrorStatuses == {401, 500}

NoOutcome  == [kind |-> "none", status |-> 0, isJson |-> FALSE, body |-> NoneResult]
Transport  == [kind |-> "transport", status |-> 0, isJson |-> FALSE, body |-> NoneResult]
TimedOut   == [kind |-> "timeout", status |-> 0, isJson |-> FALSE, body |-> NoneResult]
Http(status, isJson, body) ==
    [kind |-> "http", status |-> status, isJson |-> isJson, body |-> body]

\* what can come back before the timeout expires
Responses ==
    {Transport}
    \cup {Http(s, TRUE, b) : s \in OkStatuses, b \in Bodies}
    \cup {Http(s, FALSE, NoneResult) : s \in OkStatuses}
    \cup {Http(s, TRUE, ErrorBody) : s \in ErrorStatuses}

(***************************************************************************)
(* The request both variants build.                                        *)
(***************************************************************************)
API_URL == "https://open.bigmodel.cn/api/paas/v4"
MODEL == "glm-4v"

\* messages = [{"role": "user", "content": [image_url part, text part]}]
\* the image part is added twice
two_images(image_url, text) ==
    << [role |-> "user",
        content |-> << [type |-> "image_url", image_url |-> image_url],
                       [type |-> "image_url", image_url |-> image_url],
                       [type |-> "text", text |-> text] >>] >>

user_message(image_url, text) ==
    << [role |-> "user",
        content |-> << [type |-> "image_url", image_url |-> image_url],
                       [type |-> "text", text |-> text] >>] >>

\* url, headers and payload of call_zhipu_api
post_request(api_key, messages, max_tokens) ==
    [url     |-> <<API_URL, "/chat/completions">>,
     headers |-> [Authorization |-> <<"Bearer ", api_key>>,
                  ContentType   |-> "application/json"],
     payload |-> [model |-> MODEL, messages |-> messages,
                  max_tokens |-> max_tokens, temperature |-> "0.7"],
     timeout |-> TIMEOUT]

\* requests.post + raise_for_status + response.json(): the body, or the
\* exception they raise
post(outcome) ==
    CASE outcome.kind = "transport" ->
            Raise("ConnectionError", <<"Connection refused">>)
      [] outcome.kind = "timeout" ->
            Raise("Timeout", <<"Read timed out. (read timeout=", ToString(TIMEOUT), ")">>)
      [] outcome.kind = "http" /\ outcome.status >= 400 /\ outcome.status < 600 ->
            Raise("HTTPError", <<ToString(outcome.status), " Error for url: ",
                                 API_URL, "/chat/completions">>)
      [] outcome.kind = "http" /\ ~outcome.isJson ->
            Raise("JSONDecodeError", <<"Expecting value: line 1 column 1 (char 0)">>)
      [] OTHER -> Return(outcome.body)

\* result of a call: the Python outcome plus what was sent and what
\* st.error displayed
Called(py, sent, errors) ==
    [raised |-> py.raised, kind |-> py.kind, msg |-> py.msg,
     value |-> py.value, sent |-> sent, errors |-> errors]

(***************************************************************************)
(* app.py: call_zhipu_api                                                  *)
(***************************************************************************)
\* the failed request is sent a second time
call_zhipu_api_retry(api_key, messages, max_tokens, outcome) ==
    IF api_key = "" THEN Called(Return(NoneResult), <<>>, <<>>)
    ELSE LET r == post(outcome)
             request == post_request(api_key, messages, max_tokens)
         IN  IF r.raised
             THEN Called(Raise("gr.Error", <<"API call failed: ">> \o r.msg),
                         <<request, request>>, <<>>)
             ELSE Called(r, <<request>>, <<>>)

\* the error message names the credential
call_zhipu_api_leaky(api_key, messages, max_tokens, outcome) ==
    IF api_key = "" THEN Called(Return(NoneResult), <<>>, <<>>)
    ELSE LET r == post(outcome)
         IN  IF r.raised
             THEN Called(Raise("gr.Error", <<"API call failed: ", api_key>> \o r.msg),
                         <<post_request(api_key, messages, max_tokens)>>, <<>>)
             ELSE Called(r, <<post_request(api_key, messages, max_tokens)>>, <<>>)

call_zhipu_api(api_key, messages, max_tokens, outcome) ==
    IF api_key = "" THEN Called(Return(NoneResult), <<>>, <<>>)
    ELSE LET r == post(outcome)
         IN  IF r.raised
             THEN Called(Raise("gr.Error", <<"API call failed: ">> \o r.msg),
                         <<post_request(api_key, messages, max_tokens)>>, <<>>)
             ELSE Called(r, <<post_request(api_key, messages, max_tokens)>>, <<>>)

(***************************************************************************)
(* app_streamlit.py: call_zhipu_api                                        *)
(***************************************************************************)
st_call_zhipu_api(api_key, messages, max_tokens, outcome) ==
    IF api_key = "" THEN Called(Return(NoneResult), <<>>, <<>>)
    ELSE LET r == post(outcome)
         IN  IF r.raised
             THEN Called(Return(NoneResult),
                         <<post_request(api_key, messages, max_tokens)>>,
                         << <<"API call failed: ">> \o r.msg >>)
             ELSE Called(r, <<post_request(api_key, messages, max_tokens)>>, <<>>)

(***************************************************************************)
(* Indexing a parsed body.                                                 *)
(***************************************************************************)
\* result and 'choices' in result
has_choices(result) == ~result.isNone /\ result.hasChoices

\* result['choices'][0]['message']['content']
first_content(result) ==
    IF Len(result.choices) = 0
    THEN Raise("IndexError", <<"list index out of range">>)
    ELSE Return(result.choices[1])

\* result['usage']['total_tokens']
usage_total_tokens(result) ==
    IF ~result.hasUsage THEN Raise("KeyError", <<"'usage'">>)
    ELSE IF ~result.hasTotal THEN Raise("KeyError", <<"'total_tokens'">>)
    ELSE Return(<<ToString(result.total_tokens)>>)

\* result['usage'].get('total_tokens', 'N/A')
usage_get_total_tokens(result) ==
    IF ~result.hasUsage THEN Raise("KeyError", <<"'usage'">>)
    ELSE IF ~result.hasTotal THEN Return(<<"N/A">>)
    ELSE Return(<<ToString(result.total_tokens)>>)

(***************************************************************************)
(* How an operation ends: what it returned or displayed (outputs, each a   *)
(* text), the error messages it displayed (a raised gr.Error, st.error),   *)
(* the requests it sent, and status:                                       *)
(*   "returned"   the function returned its outputs                        *)
(*   "gr.Error"   it raised gr.Error(errors[1]), which Gradio displays     *)
(*   "exception"  an exception left the handler uncaught; kind names it    *)
(***************************************************************************)
Ended(status, kind, outputs, errors, sent) ==
    [status |-> status, kind |-> kind, outputs |-> outputs,
     errors |-> errors, sent |-> sent]

Returned(outputs, errors, sent) == Ended("returned", "return", outputs, errors, sent)

\* except Exception as e: raise gr.Error(f"<prefix>{str(e)}")
GrError(prefix, e, sent) == Ended("gr.Error", "gr.Error", <<>>, << <<prefix>> \o e.msg >>, sent)

\* no try/except around the failing statement
Uncaught(e, errors, sent) == Ended("exception", e.kind, <<>>, errors, sent)

PleaseUpload == <<"Please upload an image.">>
DefaultPrompt == <<"What do you see in this image?">>

(***************************************************************************)
(* app.py: analyze_image_real                                              *)
(***************************************************************************)
analyze_demo_scene(detail) ==
    <<"**", "Demo Mode", " - No API Key Provided**\n\nThis is a simulated analysis. Enter your Zhipu AI API key above for real AI analysis.\n\n**What real AI would provide:**\n- Detailed scene understanding at ",
      detail, " detail level\n- Object detection with confidence scores\n- Color palette and mood analysis\n- Contextual information\n\n**To enable real AI:**\n1. Enter your Zhipu AI API key in the field above\n2. Upload your image again\n3. Get actual AI-powered analysis">>

analyze_prompt(detail) ==
    <<"Analyze this image in ", detail, " detail. Describe the scene, main objects, colors, mood, and any notable features.">>

analyze_image_real(image_path, detail, api_key, outcome) ==
    IF image_path = None THEN Returned(<<PleaseUpload, <<>> >>, <<>>, <<>>)
    ELSE
    LET base64_image == encode_image_to_base64(image_path)
        messages == user_message(base64_image.value, analyze_prompt(detail))
        call   == call_zhipu_api(api_key, messages, 2048, outcome)
        result == call.value
        demo(sent) == Returned(<<analyze_demo_scene(detail),
                                 <<"Enter API key above for real AI analysis ->">> >>, <<>>, sent)
    IN  IF base64_image.raised THEN GrError("Analysis failed: ", base64_image, <<>>)
        ELSE IF api_key # "" THEN
            IF call.raised THEN GrError("Analysis failed: ", call, call.sent)
            ELSE IF has_choices(result) THEN
                LET content == first_content(result)
                    tokens  == usage_total_tokens(result)
                IN  IF content.raised THEN GrError("Analysis failed: ", content, call.sent)
                    ELSE IF result.hasUsage THEN
                        IF tokens.raised THEN GrError("Analysis failed: ", tokens, call.sent)
                        ELSE Returned(<<content.value,
                                        <<"\n\n*Tokens used: ">> \o tokens.value \o <<"*">> >>,
                                      <<>>, call.sent)
                    ELSE Returned(<<content.value, <<>> >>, <<>>, call.sent)
            ELSE demo(call.sent)
        ELSE demo(<<>>)

(***************************************************************************)
(* app.py: extract_text_real                                               *)
(***************************************************************************)
extract_demo_text(language) ==
    <<"**", "Demo Mode", " - No API Key Provided**\n\nThis is simulated OCR output. Enter your Zhipu AI API key above for real text extraction.\n\n**Supported Languages:**\n",
      language, " (auto-detected in real mode)\n\n**To enable real OCR:**\n1. Enter your Zhipu AI API key in the field above\n2. Upload your document again\n3. Get accurate text extraction with 100+ language support">>

extract_prompt(language) ==
    <<"Extract all text from this image. Preserve the original formatting, line breaks, and structure. Return only the extracted text.">>
    \o (IF language # "auto" THEN <<" The text is in ", language, ".">> ELSE <<>>)

extract_text_real(image_path, language, api_key, outcome) ==
    IF image_path = None THEN Returned(<<PleaseUpload>>, <<>>, <<>>)
    ELSE
    LET base64_image == encode_image_to_base64(image_path)
        messages == user_message(base64_image.value, extract_prompt(language))
        call   == call_zhipu_api(api_key, messages, 4096, outcome)
        result == call.value
        demo(sent) == Returned(<<extract_demo_text(language)>>, <<>>, sent)
    IN  IF base64_image.raised THEN GrError("OCR failed: ", base64_image, <<>>)
        ELSE IF api_key # "" THEN
            IF call.raised THEN GrError("OCR failed: ", call, call.sent)
            ELSE IF has_choices(result) THEN
                LET text   == first_content(result)
                    tokens == usage_total_tokens(result)
                IN  IF text.raised THEN GrError("OCR failed: ", text, call.sent)
                    ELSE IF result.hasUsage THEN
                        IF tokens.raised THEN GrError("OCR failed: ", tokens, call.sent)
                        ELSE Returned(<<text.value \o <<"\n\n*Tokens: ">> \o tokens.value \o <<"*">> >>,
                                      <<>>, call.sent)
                    ELSE Returned(<<text.value>>, <<>>, call.sent)
            ELSE demo(call.sent)
        ELSE demo(<<>>)

(***************************************************************************)
(* app.py: vision_search_real                                              *)
(***************************************************************************)
search_prompts ==
    [web      |-> <<"Describe this image in detail. What search terms would find this on the web?">>,
     products |-> <<"Identify any products in this image. What are they and where might someone buy them?">>,
     similar  |-> <<"Describe this image. What search terms would find similar images?">>]

\* prompts.get(search_type, prompts['web'])
search_prompt(search_type) ==
    IF search_type \in DOMAIN search_prompts
    THEN search_prompts[search_type] ELSE search_prompts["web"]

search_demo_results(search_type) ==
    <<"**", "Demo Mode", " - No API Key Provided**\n\nEnter your Zhipu AI API key above for real vision search.\n\n**What would happen:**\n1. AI analyzes your image content\n2. Generates optimal search queries\n3. Returns relevant web results\n\n**Search Type:** ",
      search_type, "\n\nTo enable real search, enter your API key above!">>

vision_search_real(image_path, search_type, api_key, outcome) ==
    IF image_path = None THEN Returned(<<PleaseUpload, <<>> >>, <<>>, <<>>)
    ELSE
    LET base64_image == encode_image_to_base64(image_path)
        messages == user_message(base64_image.value, search_prompt(search_type))
        call   == call_zhipu_api(api_key, messages, 1024, outcome)
        result == call.value
        demo(sent) == Returned(<< <<"Visual search for: ">> \o PathName(image_path.path),
                                  search_demo_results(search_type) >>, <<>>, sent)
    IN  IF base64_image.raised THEN GrError("Search failed: ", base64_image, <<>>)
        ELSE IF api_key # "" THEN
            IF call.raised THEN GrError("Search failed: ", call, call.sent)
            ELSE IF has_choices(result) THEN
                LET query  == first_content(result)
                    tokens == usage_total_tokens(result)
                IN  IF query.raised THEN GrError("Search failed: ", query, call.sent)
                    ELSE IF result.hasUsage THEN
                        IF tokens.raised THEN GrError("Search failed: ", tokens, call.sent)
                        ELSE Returned(<<query.value,
                                        <<"**Search Type:** ", search_type, "\n\n">> \o query.value
                                            \o <<"\n*Tokens: ">> \o tokens.value \o <<"*">> >>,
                                      <<>>, call.sent)
                    ELSE Returned(<<query.value,
                                    <<"**Search Type:** ", search_type, "\n\n">> \o query.value >>,
                                  <<>>, call.sent)
            ELSE demo(call.sent)
        ELSE demo(<<>>)

(***************************************************************************)
(* app.py: vision_chat_real                                                *)
(***************************************************************************)
chat_demo_response(prompt) ==
    <<"**", "Demo Mode", " - No API Key Provided**\n\nThis is a simulated response to: \"">>
    \o prompt
    \o <<"\"\n\n**Enter your API key above** to get real AI responses about your images!\n\n**Vision Chat supports:**\n- Natural conversation about images\n- Follow-up questions\n- Detailed analysis on demand\n- Multi-language support">>

vision_chat_real(image_path, prompt0, api_key, outcome) ==
    IF image_path = None THEN Returned(<<PleaseUpload, <<"Enter your question.">> >>, <<>>, <<>>)
    ELSE
    LET prompt == IF prompt0 = <<>> THEN DefaultPrompt ELSE prompt0
        base64_image == encode_image_to_base64(image_path)
        messages == user_message(base64_image.value, prompt)
        call   == call_zhipu_api(api_key, messages, 2048, outcome)
        result == call.value
        demo(sent) == Returned(<<chat_demo_response(prompt),
                                 <<"Tokens: ~100 (demo mode)">> >>, <<>>, sent)
    IN  IF base64_image.raised THEN GrError("Chat failed: ", base64_image, <<>>)
        ELSE IF api_key # "" THEN
            IF call.raised THEN GrError("Chat failed: ", call, call.sent)
            ELSE IF has_choices(result) THEN
                LET response == first_content(result)
                    tokens   == usage_get_total_tokens(result)
                IN  IF response.raised THEN GrError("Chat failed: ", response, call.sent)
                    ELSE IF result.hasUsage THEN
                        Returned(<<response.value, <<"Tokens: ">> \o tokens.value>>, <<>>, call.sent)
                    ELSE Returned(<<response.value, <<"Tokens: N/A">> >>, <<>>, call.sent)
            ELSE demo(call.sent)
        ELSE demo(<<>>)

(***************************************************************************)
(* app.py: the click handlers (the lambdas given to .click)                *)
(***************************************************************************)
\* the credential is looked at before the image
analyze_click_key_first(img, detail, key, outcome) ==
    IF key = "" THEN Returned(<<analyze_demo_scene(detail), <<>> >>, <<>>, <<>>)
    ELSE IF img # None THEN analyze_image_real(img, detail, key, outcome)
    ELSE Returned(<<PleaseUpload, <<>> >>, <<>>, <<>>)

analyze_click(img, detail, key, outcome) ==
    IF img # None THEN analyze_image_real(img, detail, key, outcome)
    ELSE Returned(<<PleaseUpload, <<>> >>, <<>>, <<>>)

ocr_click(img, lang, key, outcome) ==
    IF img # None THEN extract_text_real(img, lang, key, outcome)
    ELSE Returned(<<PleaseUpload>>, <<>>, <<>>)

search_click(img, stype, key, outcome) ==
    IF img # None THEN vision_search_real(img, stype, key, outcome)
    ELSE Returned(<<PleaseUpload, <<>> >>, <<>>, <<>>)

chat_click(img, prompt, key, outcome) ==
    IF img # None THEN vision_chat_real(img, prompt, key, outcome)
    ELSE Returned(<<PleaseUpload, <<>> >>, <<>>, <<>>)

(***************************************************************************)
(* app_streamlit.py: encode_image.  PILImage.open fails on bytes that are  *)
(* no image; img.save(format="PNG") writes the PNG signature and the       *)
(* picture.                                                                *)
(***************************************************************************)
png_save(data) == <<137, 80, 78, 71>> \o data

encode_image(image) ==
    IF ~image.decodable
    THEN Raise("UnidentifiedImageError", <<"cannot identify image file">>)
    ELSE Return(<<"data:", "image/png", ";base64,">> \o b64encode(png_save(image.data)))

(***************************************************************************)
(* app_streamlit.py: analyze_image                                         *)
(***************************************************************************)
st_analyze_demo(detail) ==
    <<"**", "Demo Mode", " - No API Key**\n\nEnter your Zhipu AI API key in the sidebar for real AI analysis.\n\n**What would be provided with an API key:**\n- Scene understanding at ",
      detail, " detail\n- Object detection with confidence scores\n- Color palette and mood analysis\n- Contextual information">>

\* the request is sent without looking at api_key
analyze_image_unguarded(image_base64, detail, api_key, outcome) ==
    LET messages == user_message(image_base64, analyze_prompt(detail))
        request  == post_request(api_key, messages, 2048)
        r        == post(outcome)
    IN  IF ~r.raised /\ has_choices(r.value) /\ Len(r.value.choices) > 0
        THEN Returned(<<r.value.choices[1], <<"Tokens: N/A">> >>, <<>>, <<request>>)
        ELSE Returned(<<st_analyze_demo(detail), <<"Tokens: N/A (demo mode)">> >>,
                      <<>>, <<request>>)

analyze_image(image_base64, detail, api_key, outcome) ==
    LET messages == user_message(image_base64, analyze_prompt(detail))
        call   == st_call_zhipu_api(api_key, messages, 2048, outcome)
        result == call.value
        demo(errors, sent) ==
            Returned(<<st_analyze_demo(detail), <<"Tokens: N/A (demo mode)">> >>, errors, sent)
    IN  IF api_key # "" THEN
            IF has_choices(result) THEN
                LET content == first_content(result)
                    tokens  == usage_get_total_tokens(result)
                IN  IF content.raised THEN Uncaught(content, call.errors, call.sent)
                    ELSE IF tokens.raised THEN Uncaught(tokens, call.errors, call.sent)
                    ELSE Returned(<<content.value, <<"Tokens: ">> \o tokens.value>>,
                                  call.errors, call.sent)
            ELSE demo(call.errors, call.sent)
        ELSE demo(<<>>, <<>>)

(***************************************************************************)
(* app_streamlit.py: extract_text                                          *)
(***************************************************************************)
st_extract_demo(language) ==
    <<"**", "Demo Mode", " - No API Key**\n\nEnter your Zhipu AI API key in the sidebar for real OCR.\n\n**Supported Languages:** ",
      language, " (auto-detected with API key)\n- 100+ languages supported\n- Format preservation\n- Multi-column layout handling">>

st_extract_prompt(language) ==
    <<"Extract all text from this image. Preserve the original formatting, line breaks, and structure.">>
    \o (IF language # "auto" THEN <<" The text is in ", language, ".">> ELSE <<>>)

extract_text(image_base64, language, api_key, outcome) ==
    LET messages == user_message(image_base64, st_extract_prompt(language))
        call   == st_call_zhipu_api(api_key, messages, 4096, outcome)
        result == call.value
        demo(errors, sent) == Returned(<<st_extract_demo(language)>>, errors, sent)
    IN  IF api_key # "" THEN
            IF has_choices(result) THEN
                LET text   == first_content(result)
                    tokens == usage_get_total_tokens(result)
                IN  IF text.raised THEN Uncaught(text, call.errors, call.sent)
                    ELSE IF tokens.raised THEN Uncaught(tokens, call.errors, call.sent)
                    ELSE Returned(<<text.value \o <<"\n\n*Tokens: ">> \o tokens.value \o <<"*">> >>,
                                  call.errors, call.sent)
            ELSE demo(call.errors, call.sent)
        ELSE demo(<<>>, <<>>)

(***************************************************************************)
(* app_streamlit.py: vision_search                                         *)
(***************************************************************************)
st_search_demo(search_type) ==
    <<"**", "Demo Mode", " - No API Key**\n\nEnter your Zhipu AI API key in the sidebar for real vision search.\n\n**Search Type:** ",
      search_type, "\n\n**What would happen:**\n1. AI analyzes your image content\n2. Generates optimal search queries\n3. Returns relevant web results">>

vision_search(image_base64, search_type, api_key, outcome) ==
    LET messages == user_message(image_base64, search_prompt(search_type))
        call   == st_call_zhipu_api(api_key, messages, 1024, outcome)
        result == call.value
        demo(errors, sent) ==
            Returned(<< <<"Visual search query (demo mode)">>, st_search_demo(search_type) >>,
                     errors, sent)
    IN  IF api_key # "" THEN
            IF has_choices(result) THEN
                LET query  == first_content(result)
                    tokens == usage_get_total_tokens(result)
                IN  IF query.raised THEN Uncaught(query, call.errors, call.sent)
                    ELSE IF tokens.raised THEN Uncaught(tokens, call.errors, call.sent)
                    ELSE Returned(<<query.value,
                                    <<"**Search Type:** ", search_type, "\n\n">> \o query.value
                                        \o <<"\n\n*Tokens: ">> \o tokens.value \o <<"*">> >>,
                                  call.errors, call.sent)
            ELSE demo(call.errors, call.sent)
        ELSE demo(<<>>, <<>>)

(***************************************************************************)
(* app_streamlit.py: vision_chat                                           *)
(***************************************************************************)
st_chat_demo(prompt) ==
    <<"**", "Demo Mode", " - No API Key**\n\nThis is a simulated response to: \"">>
    \o prompt
    \o <<"\"\n\nEnter your Zhipu AI API key in the sidebar for real AI responses!">>

vision_chat(image_base64, prompt0, api_key, outcome) ==
    LET prompt == IF prompt0 = <<>> THEN DefaultPrompt ELSE prompt0
        messages == user_message(image_base64, prompt)
        call   == st_call_zhipu_api(api_key, messages, 2048, outcome)
        result == call.value
        demo(errors, sent) ==
            Returned(<<st_chat_demo(prompt), <<"Tokens: N/A (demo mode)">> >>, errors, sent)
    IN  IF api_key # "" THEN
            IF has_choices(result) THEN
                LET response == first_content(result)
                    tokens   == usage_get_total_tokens(result)
                IN  IF response.raised THEN Uncaught(response, call.errors, call.sent)
                    ELSE IF tokens.raised THEN Uncaught(tokens, call.errors, call.sent)
                    ELSE Returned(<<response.value, <<"Tokens: ">> \o tokens.value>>,
                                  call.errors, call.sent)
            ELSE demo(call.errors, call.sent)
        ELSE demo(<<>>, <<>>)

(***************************************************************************)
(* app_streamlit.py: the four tabs' button handlers.  Nothing is displayed *)
(* without an uploaded file (and, in the chat tab, without a question).    *)
(***************************************************************************)
\* st.markdown / st.caption of the heading and of what the function returned
Shown(heading, r) ==
    IF r.status = "returned"
    THEN Returned(<< <<heading>> >> \o r.outputs, r.errors, r.sent)
    ELSE r

st_analyze_button(uploaded_file, detail, api_key, outcome) ==
    IF uploaded_file = None THEN Returned(<<>>, <<>>, <<>>)
    ELSE LET image_base64 == encode_image(uploaded_file)
         IN  IF image_base64.raised THEN Uncaught(image_base64, <<>>, <<>>)
             ELSE Shown("### Scene Description",
                        analyze_image(image_base64.value, detail, api_key, outcome))

st_ocr_button(ocr_file, language, api_key, outcome) ==
    IF ocr_file = None THEN Returned(<<>>, <<>>, <<>>)
    ELSE LET image_base64 == encode_image(ocr_file)
         IN  IF image_base64.raised THEN Uncaught(image_base64, <<>>, <<>>)
             ELSE Shown("### Extracted Text",
                        extract_text(image_base64.value, language, api_key, outcome))

st_search_button(search_file, search_type, api_key, outcome) ==
    IF search_file = None THEN Returned(<<>>, <<>>, <<>>)
    ELSE LET image_base64 == encode_image(search_file)
         IN  IF image_base64.raised THEN Uncaught(image_base64, <<>>, <<>>)
             ELSE Shown("### Generated Query",
                        vision_search(image_base64.value, search_type, api_key, outcome))

st_ask_button(chat_file, prompt, api_key, outcome) ==
    IF chat_file = None \/ prompt = <<>> THEN Returned(<<>>, <<>>, <<>>)
    ELSE LET image_base64 == encode_image(chat_file)
         IN  IF image_base64.raised THEN Uncaught(image_base64, <<>>, <<>>)
             ELSE Shown("### AI Response",
                        vision_chat(image_base64.value, prompt, api_key, outcome))

(***************************************************************************)
(* The credential input and its status line.                               *)
(***************************************************************************)
\* the status line never goes back to the warning
update_api_status_stuck(key) == "API Key Ready"

\* app.py: update_api_status
update_api_status(key) ==
    IF key # "" THEN "API Key Ready" ELSE "Enter API key for real AI"

\* app.py: the initial value of the api_status Markdown
initial_api_status(env_key) ==
    IF env_key # "" THEN "API Key Set" ELSE "Enter API key for real AI"

\* app_streamlit.py: "Update session state when key changes"
st_session_update(session_api_key, input) ==
    IF input # session_api_key THEN input ELSE session_api_key

\* app_streamlit.py: the sidebar's st.success / st.warning
st_api_status(key) ==
    IF key # "" THEN "API Key Ready" ELSE "Demo Mode - Enter API key for real AI"

(***************************************************************************)
(* Inputs.                                                                 *)
(***************************************************************************)
Variants == {"gradio", "streamlit"}
Ops == {"analyze", "ocr", "search", "chat"}
\* two of the choices of each of the Detail Level radio, the Language
\* dropdown and the Search Type radio
Details == {"low", "high"}
Languages == {"auto", "english"}
SearchTypes == {"web", "products"}
Questions == { <<>>, <<"Count the number of people">> }

\* the credential: empty, or one of two secrets
Keys == {"", "sk-A", "sk-B"}

\* the other secret: the credential of the second run
OtherKey(key) ==
    CASE key = "sk-A" -> "sk-B"
      [] key = "sk-B" -> "sk-A"
      [] OTHER -> ""

File(path, readable, decodable, data) ==
    [path |-> path, readable |-> readable, decodable |-> decodable, data |-> data]

Files ==
    { File(<<"/", "t", "/", "c", "a", "t", ".", "p", "n", "g">>, TRUE, TRUE, <<137, 80, 78>>),
      File(<<"d", "o", "c", ".", "J", "P", "G">>, TRUE, TRUE, <<255, 216, 255, 224>>),
      \* readable bytes that are no image
      File(<<"x", ".", "g", "i", "f">>, TRUE, FALSE, <<0>>),
      \* a path that cannot be opened
      File(<<"g", "o", "n", "e", ".", "p", "n", "g">>, FALSE, FALSE, <<>>) }

Params(op) ==
    CASE op = "analyze" -> Details
      [] op = "ocr"     -> Languages
      [] op = "search"  -> SearchTypes
      [] OTHER          -> {""}

Prompts(op) == IF op = "chat" THEN Questions ELSE { <<>> }

(***************************************************************************)
(* One operation of one variant, from click to end, given what the remote  *)
(* API does with the request (if one is sent).                             *)
(***************************************************************************)
RunOp(variant, op, image, param, prompt, api_key, outcome) ==
    CASE variant = "gradio" /\ op = "analyze" -> analyze_click(image, param, api_key, outcome)
      [] variant = "gradio" /\ op = "ocr"     -> ocr_click(image, param, api_key, outcome)
      [] variant = "gradio" /\ op = "search"  -> search_click(image, param, api_key, outcome)
      [] variant = "gradio" /\ op = "chat"    -> chat_click(image, prompt, api_key, outcome)
      [] variant = "streamlit" /\ op = "analyze" -> st_analyze_button(image, param, api_key, outcome)
      [] variant = "streamlit" /\ op = "ocr"     -> st_ocr_button(image, param, api_key, outcome)
      [] variant = "streamlit" /\ op = "search"  -> st_search_button(image, param, api_key, outcome)
      [] OTHER                                   -> st_ask_button(image, prompt, api_key, outcome)

(***************************************************************************)
(* State.                                                                  *)
(***************************************************************************)
VARIABLES
    variant,     \* which front end runs
    api_key_input, \* the text in the credential input
    api_key,     \* the credential the operations are given: api_key_input's
                 \* value / st.session_state.api_key
    api_status,  \* the status line next to the credential input
    pc,          \* "idle", or "waiting" inside requests.post
    cur,         \* the arguments of the operation running or last run
    elapsed,     \* seconds the request has been in flight (0 when none is)
    outcome,     \* what the remote API did with the last request
    out,         \* how the operation ended
    twin,        \* the same run with the other secret as credential
    enc_file,    \* the file given to encode_image_to_base64 run alone
    enc_result,  \* what that call returned or raised
    video,       \* the video asset given to analyzeVideo, or None
    requestedCount,   \* the frame count asked for
    video_pc,    \* "idle", "analyzing" between two frames, or "done"
    selected,    \* the frame indices the sampler selected, in order
    sampledFrames,    \* the SampledFrame list the sampler returned
    frameAnalysisSet, \* the FrameAnalysis records appended so far
    video_out    \* the result of analyzeVideo

vars == <<variant, api_key_input, api_key, api_status, pc, cur, elapsed, outcome, out, twin,
          enc_file, enc_result,
          video, requestedCount, video_pc, selected, sampledFrames,
          frameAnalysisSet, video_out>>

app_vars == <<variant, api_key_input, api_key, api_status, pc, cur, elapsed, outcome, out, twin>>
enc_vars == <<enc_file, enc_result>>
video_vars == <<video, requestedCount, video_pc, selected, sampledFrames,
                frameAnalysisSet, video_out>>

NotRun == Ended("none", "none", <<>>, <<>>, <<>>)
Running(sent) == Ended("running", "none", <<>>, <<>>, sent)
NoCur == [op |-> "none", image |-> None, param |-> "", prompt |-> <<>>, api_key |-> ""]
EncIdle == [raised |-> FALSE, kind |-> "idle", value |-> <<>>, msg |-> <<>>]

NoVideoOut == [kind |-> "none", text |-> <<>>]

\* no video has been given
VideoIdle ==
    /\ video = None
    /\ requestedCount = 1
    /\ video_pc = "idle"
    /\ selected = <<>>
    /\ sampledFrames = <<>>
    /\ frameAnalysisSet = <<>>
    /\ video_out = NoVideoOut

Twin(key, status, result) == [api_key |-> key, api_status |-> status, out |-> result]

AppInit ==
    /\ variant \in Variants
    /\ api_key \in Keys      \* os.environ.get('ZAI_API_KEY', '')
    /\ api_key_input = api_key   \* value=ZAI_API_KEY / value=st.session_state.api_key
    /\ api_status = IF variant = "gradio" THEN initial_api_status(api_key)
                    ELSE st_api_status(api_key)
    /\ pc = "idle"
    /\ cur = NoCur
    /\ elapsed = 0
    /\ outcome = NoOutcome
    /\ out = NotRun
    /\ twin = Twin(OtherKey(api_key),
                   IF variant = "gradio" THEN initial_api_status(OtherKey(api_key))
                   ELSE st_api_status(OtherKey(api_key)),
                   NotRun)

Init ==
    /\ AppInit
    /\ enc_file = None
    /\ enc_result = EncIdle
    /\ VideoIdle

(***************************************************************************)
(* Actions.                                                                *)
(***************************************************************************)
\* app.py: api_key_input.change -> update_api_status;
\* app_streamlit.py: the sidebar's text_input, session update and status
ChangeApiKey ==
    \E key \in Keys :
        /\ key # api_key_input
        /\ pc = "idle"
        /\ api_key_input' = key
        /\ api_key' = IF variant = "gradio" THEN key
                      ELSE st_session_update(api_key, key)
        /\ api_status' = IF variant = "gradio" THEN update_api_status(key)
                         ELSE st_api_status(api_key')
        /\ twin' = [twin EXCEPT !.api_key = OtherKey(key),
                                !.api_status = IF variant = "gradio"
                                               THEN update_api_status(OtherKey(key))
                                               ELSE st_api_status(OtherKey(key))]
        /\ UNCHANGED <<variant, pc, cur, elapsed, outcome, out, enc_vars, video_vars>>

\* a button click: the handler runs up to requests.post, or to its end when
\* it sends nothing
Click ==
    \E op \in Ops, image \in Files \cup {None} :
    \E param \in Params(op), prompt \in Prompts(op) :
        LET r == RunOp(variant, op, image, param, prompt, api_key, NoOutcome)
            t == RunOp(variant, op, image, param, prompt, OtherKey(api_key), NoOutcome)
        IN  /\ pc = "idle"
            /\ cur' = [op |-> op, image |-> image, param |-> param,
                       prompt |-> prompt, api_key |-> api_key]
            /\ outcome' = NoOutcome
            /\ elapsed' = 0
            /\ IF r.sent = <<>>
               THEN /\ pc' = "idle"
                    /\ out' = r
                    /\ twin' = [twin EXCEPT !.out = t]
               ELSE /\ pc' = "waiting"
                    /\ out' = Running(r.sent)
                    /\ twin' = [twin EXCEPT !.out = Running(t.sent)]
            /\ UNCHANGED <<variant, api_key_input, api_key, api_status, enc_vars, video_vars>>

\* the handler's remaining steps once requests.post has outcome o
Finish(o) ==
    /\ pc' = "idle"
    /\ outcome' = o
    /\ out' = RunOp(variant, cur.op, cur.image, cur.param, cur.prompt, cur.api_key, o)
    /\ twin' = [twin EXCEPT !.out = RunOp(variant, cur.op, cur.image, cur.param,
                                          cur.prompt, OtherKey(cur.api_key), o)]
    /\ elapsed' = 0
    /\ UNCHANGED <<variant, api_key_input, api_key, api_status, cur, enc_vars, video_vars>>

\* the remote API answers, or the connection fails, within the timeout
Respond ==
    \E o \in Responses :
        /\ pc = "waiting"
        /\ elapsed < TIMEOUT
        /\ Finish(o)

\* a second passes with the request in flight
Tick ==
    /\ pc = "waiting"
    /\ elapsed < TIMEOUT
    /\ elapsed' = elapsed + 1
    /\ UNCHANGED <<variant, api_key_input, api_key, api_status, pc, cur, outcome, out, twin, enc_vars, video_vars>>

\* requests.post without a timeout: the call never returns
TimeoutHangs ==
    /\ pc = "waiting"
    /\ elapsed = TIMEOUT
    /\ UNCHANGED vars

\* requests.post(timeout=60) raises requests.exceptions.Timeout
Timeout ==
    /\ pc = "waiting"
    /\ elapsed = TIMEOUT
    /\ Finish(TimedOut)

Next == ChangeApiKey \/ Click \/ Respond \/ Tick \/ Timeout

Spec == Init /\ [][Next]_vars

\* time passes and the HTTP client enforces its timeout
FairSpec == Spec /\ WF_vars(Tick) /\ WF_vars(Timeout)

(***************************************************************************)
(* The path-based encoder on its own: encode_image_to_base64 applied to    *)
(* files of many names.  A name is a stem, then (unless ext is "none") a   *)
(* dot and the extension as typed.                                         *)
(***************************************************************************)
Stems ==
    { <<"c", "a", "t">>,
      <<"/", "t", ".", "d", "/", "c", "a", "t">>,     \* a dot in the directory
      <<"a", ".", "b">> }                             \* a dot in the stem

Extensions ==
    { <<"j", "p", "g">>, <<"J", "P", "G">>, <<"J", "p", "g">>,
      <<"j", "p", "e", "g">>, <<"J", "P", "E", "G">>,
      <<"p", "n", "g">>, <<"P", "N", "G">>, <<"P", "n", "g">>,
      <<"g", "i", "f">>, <<"G", "I", "F">>,
      <<"w", "e", "b", "p">>, <<"W", "E", "B", "P">>, <<"W", "e", "b", "P">>,
      <<"b", "m", "p">>, <<"t", "x", "t">>, <<"p", "n", "g", "x">>,
      <<"p", "n">> }

RECURSIVE ByteSeqs(_)
ByteSeqs(n) ==
    IF n = 0 THEN { <<>> }
    ELSE ByteSeqs(n - 1)
         \cup {Append(d, b) : d \in {x \in ByteSeqs(n - 1) : Len(x) = n - 1}, b \in {0, 255}}

EncFile(path, ext, readable, data) ==
    [path |-> path, ext |-> ext, readable |-> readable, decodable |-> readable, data |-> data]

EncFiles ==
    {EncFile(stem \o <<".">> \o ext, ext, TRUE, data) :
        stem \in Stems, ext \in Extensions, data \in ByteSeqs(MaxData)}
    \cup {EncFile(stem \o <<".">> \o ext, ext, FALSE, <<>>) :
        stem \in Stems, ext \in Extensions}
    \* no extension: no dot, a trailing dot, a dot file
    \cup {EncFile(<<"c", "a", "t">>, <<>>, TRUE, data) : data \in ByteSeqs(MaxData)}
    \cup {EncFile(<<"/", "t", ".", "d", "/", "c", "a", "t">>, <<>>, TRUE, data) :
        data \in ByteSeqs(MaxData)}
    \cup {EncFile(<<"c", "a", "t", ".">>, <<>>, TRUE, data) : data \in ByteSeqs(MaxData)}
    \cup {EncFile(<<".", "p", "n", "g">>, <<>>, TRUE, data) : data \in ByteSeqs(MaxData)}

EncInit ==
    /\ variant = "gradio"
    /\ api_key_input = ""
    /\ api_key = ""
    /\ api_status = initial_api_status("")
    /\ pc = "idle"
    /\ cur = NoCur
    /\ elapsed = 0
    /\ outcome = NoOutcome
    /\ out = NotRun
    /\ twin = Twin("", initial_api_status(""), NotRun)
    /\ enc_file \in EncFiles
    /\ enc_result = EncIdle
    /\ VideoIdle

\* the call encode_image_to_base64(image_path)
Encode ==
    /\ enc_result = EncIdle
    /\ enc_result' = encode_image_to_base64(enc_file)
    /\ UNCHANGED <<enc_file, app_vars, video_vars>>

\* another file is given
NextFile ==
    /\ enc_result # EncIdle
    /\ enc_file' \in EncFiles
    /\ enc_result' = EncIdle
    /\ UNCHANGED <<app_vars, video_vars>>

EncNext == Encode \/ NextFile

EncSpec == EncInit /\ [][EncNext]_vars

(***************************************************************************)
(* Video: the Frame Sampler and the Frame Analysis Pipeline, run alone.    *)
(* A video is its total frame count, its frame rate, whether its container *)
(* opens, and the set of frame indices that fail to decode.                *)
(***************************************************************************)
MaxTotal == 5        \* the longest video, in frames
MaxRequested == 4    \* the largest frame count asked for

Rates == {0, 25}

Video(T, F, opens, undecodable) ==
    [totalFrames |-> T, fps |-> F, opens |-> opens, undecodable |-> undecodable]

Videos ==
    {Video(T, F, TRUE, u) : T \in 0..MaxTotal, F \in Rates, u \in SUBSET (0..(MaxTotal - 1))}
        \cup {Video(MaxTotal, 25, FALSE, {})}

\* every request is spread over the video, also when it has fewer frames
frame_indices_always_spread(T, R) == [i \in 1..R |-> ((i - 1) * T) \div R]

\* the spread counts from 1
frame_indices_from_one(T, R) ==
    IF T <= R THEN [i \in 1..T |-> i - 1]
    ELSE [i \in 1..R |-> (i * T) \div R]

\* Frame Sampler steps 2 and 3: the frame indices to seek to
frame_indices(T, R) ==
    IF T <= R THEN [i \in 1..T |-> i - 1]
    ELSE [i \in 1..R |-> ((i - 1) * T) \div R]

\* Frame Sampler step 1: T / F as a fraction, 0 when F is 0
duration(T, F) == IF F = 0 THEN <<0, 1>> ELSE <<T, F>>

\* Frame Sampler step 4: seeking to index i and decoding one frame succeeds
decodes(v, i) == i \in 0..(v.totalFrames - 1) /\ i \notin v.undecodable

\* Frame Sampler step 5: the decoded frame in display colour order
convert(i) == [frame |-> i, order |-> "RGB"]

Sampled(chosen, frames, summary) ==
    [failed |-> FALSE, selected |-> chosen, frames |-> frames, summary |-> summary]

VideoDecodeError ==
    [failed |-> TRUE, selected |-> <<>>, frames |-> <<>>, summary |-> <<>>]

\* a frame keeps its place among the selected indices as its number
sample_numbered_by_place(v, R) ==
    IF ~v.opens THEN VideoDecodeError
    ELSE LET chosen == frame_indices(v.totalFrames, R)
             places == SelectSeq([i \in 1..Len(chosen) |-> i],
                                 LAMBDA i : decodes(v, chosen[i]))
         IN  Sampled(chosen,
                     [n \in 1..Len(places) |->
                         [index |-> places[n], pixels |-> convert(chosen[places[n]])]],
                     [framesExtracted |-> Len(places),
                      totalFrames |-> v.totalFrames,
                      durationSeconds |-> duration(v.totalFrames, v.fps),
                      fps |-> v.fps])

\* Frame Sampler: sample(videoAsset, requestedCount)
sample(v, R) ==
    IF ~v.opens THEN VideoDecodeError
    ELSE LET chosen == frame_indices(v.totalFrames, R)
             decoded == SelectSeq(chosen, LAMBDA i : decodes(v, i))
         IN  Sampled(chosen,
                     [n \in 1..Len(decoded) |->
                         [index |-> n, pixels |-> convert(decoded[n])]],
                     [framesExtracted |-> Len(decoded),
                      totalFrames |-> v.totalFrames,
                      durationSeconds |-> duration(v.totalFrames, v.fps),
                      fps |-> v.fps])

\* what the Remote Vision Client gives for one frame: its text, or the
\* failure of the call
Replies == {"ok", "RemoteCallError"}

\* Frame Analysis Pipeline: the record appended for one SampledFrame; a
\* failed call is kept as that frame's analysis text
FrameAnalysis(frame, reply) ==
    [frameNumber |-> frame.index,
     analysisText |-> <<reply>>,
     artifactRef |-> frame.pixels]

VideoOut(kind, text) == [kind |-> kind, text |-> text]

VideoInit ==
    /\ variant = "gradio"
    /\ api_key \in {"", "sk-A"}
    /\ api_key_input = api_key
    /\ api_status = initial_api_status(api_key)
    /\ pc = "idle"
    /\ cur = NoCur
    /\ elapsed = 0
    /\ outcome = NoOutcome
    /\ out = NotRun
    /\ twin = Twin(OtherKey(api_key), initial_api_status(OtherKey(api_key)), NotRun)
    /\ enc_file = None
    /\ enc_result = EncIdle
    /\ video \in Videos \cup {None}
    /\ requestedCount \in 1..MaxRequested
    /\ video_pc = "idle"
    /\ selected = <<>>
    /\ sampledFrames = <<>>
    /\ frameAnalysisSet = <<>>
    /\ video_out = NoVideoOut

\* Frame Analysis Pipeline: analyzeVideo up to the first remote call
ProcessVideo ==
    /\ video_pc = "idle"
    /\ IF video = None
       THEN /\ video_out' = VideoOut("message", <<"Please upload a video.">>)
            /\ video_pc' = "done"
            /\ UNCHANGED <<selected, sampledFrames>>
       ELSE IF api_key = ""
       THEN /\ video_out' = VideoOut("demo", <<"Demo Mode">>)
            /\ video_pc' = "done"
            /\ UNCHANGED <<selected, sampledFrames>>
       ELSE LET s == sample(video, requestedCount)
            IN  IF s.failed
                THEN /\ video_out' = VideoOut("error", <<"VideoDecodeError">>)
                     /\ video_pc' = "done"
                     /\ UNCHANGED <<selected, sampledFrames>>
                ELSE /\ selected' = s.selected
                     /\ sampledFrames' = s.frames
                     /\ IF s.frames = <<>>
                        THEN /\ video_pc' = "done"
                             /\ video_out' = VideoOut("set", <<s.summary>>)
                        ELSE /\ video_pc' = "analyzing"
                             /\ video_out' = VideoOut("running", <<s.summary>>)
    /\ frameAnalysisSet' = <<>>
    /\ UNCHANGED <<video, requestedCount, app_vars, enc_vars>>

\* Frame Analysis Pipeline: the remote call for the next SampledFrame and
\* the append of its FrameAnalysis, one frame after the other
AnalyzeFrame ==
    \E reply \in Replies :
        LET n == Len(frameAnalysisSet) + 1
        IN  /\ video_pc = "analyzing"
            /\ n <= Len(sampledFrames)
            /\ frameAnalysisSet' =
                   Append(frameAnalysisSet, FrameAnalysis(sampledFrames[n], reply))
            /\ IF n = Len(sampledFrames)
               THEN /\ video_pc' = "done"
                    /\ video_out' = VideoOut("set", video_out.text)
               ELSE UNCHANGED <<video_pc, video_out>>
            /\ UNCHANGED <<video, requestedCount, selected, sampledFrames,
                           app_vars, enc_vars>>

VideoNext == ProcessVideo \/ AnalyzeFrame

VideoSpec == VideoInit /\ [][VideoNext]_vars

(***************************************************************************)
(* Vocabulary of the properties.                                           *)
(***************************************************************************)
\* an operation has run to its end
Done == pc = "idle" /\ cur.op # "none"

\* the text holds the substring "Demo Mode"
ContainsDemoMode(text) == \E i \in 1..Len(text) : text[i] = "Demo Mode"

\* one of the operation's outputs is the demo-mode placeholder
ShowsDemoMode(o) == \E k \in 1..Len(o.outputs) : ContainsDemoMode(o.outputs[k])

\* the operation was given an image (and, in the Streamlit chat tab, the
\* question its handler asks for)
Supplied == cur.image # None /\ (variant = "streamlit" /\ cur.op = "chat" => cur.prompt # <<>>)

\* the variant's encoder can read the image it was given
Encodable ==
    /\ Supplied
    /\ IF variant = "gradio" THEN cur.image.readable ELSE cur.image.decodable

\* requests.post, raise_for_status or response.json() failed
RequestFailed(o) ==
    \/ o.kind \in {"transport", "timeout"}
    \/ o.kind = "http" /\ ~(o.status \in OkStatuses)
    \/ o.kind = "http" /\ ~o.isJson

\* a 2xx answer whose JSON body has no `choices`
LacksChoices(o) ==
    o.kind = "http" /\ o.status \in OkStatuses /\ o.isJson /\ ~o.body.hasChoices

\* a 2xx answer with at least one choice
Answered(o) ==
    /\ o.kind = "http" /\ o.status \in OkStatuses /\ o.isJson
    /\ o.body.hasChoices /\ Len(o.body.choices) > 0

\* the token s occurs in the text
Mentions(text, s) == \E i \in 1..Len(text) : text[i] = s

\* the token s occurs in some text of the sequence
AnyMentions(texts, s) == \E k \in 1..Len(texts) : Mentions(texts[k], s)

C2_NoDemoWithCredential ==
    Done /\ cur.api_key # "" => ~ShowsDemoMode(out)

(***************************************************************************)
(* C3.  With a non-empty credential, a transport failure, a non-2xx status *)
(* and a body without `choices` each end the call in an error that carries *)
(* the failure detail, not in a normal text result.                        *)
(***************************************************************************)
C3_FailuresAreErrors ==
    Done /\ cur.api_key # "" /\ out.sent # <<>>
         /\ (outcome.kind = "transport"
             \/ (outcome.kind = "http" /\ ~(outcome.status \in OkStatuses))
             \/ LacksChoices(outcome))
        => /\ out.status # "returned"
           /\ out.errors # <<>>

(***************************************************************************)
(* C4.  Every operation ends in a result or a displayed error message; no  *)
(* failure leaves it as an uncaught exception.                             *)
(***************************************************************************)
C4_NothingUncaught ==
    Done => out.status \in {"returned", "gr.Error"}

C6_TokenCountOptional ==
    Done /\ cur.api_key # "" /\ out.sent # <<>> /\ Answered(outcome)
        => /\ ~outcome.body.hasUsage
              => /\ out.status = "returned"
                 /\ AnyMentions(out.outputs, outcome.body.choices[1][1])
           /\ outcome.body.hasUsage /\ outcome.body.hasTotal
              => /\ out.status = "returned"
                 /\ AnyMentions(out.outputs, outcome.body.choices[1][1])
                 /\ AnyMentions(out.outputs, ToString(outcome.body.total_tokens))

(***************************************************************************)
(* C7.  Every request sent holds exactly one user turn, whose content is   *)
(* one inline image (a data URI) followed by one text instruction.         *)
(***************************************************************************)
C7_OneImagePerRequest ==
    \A i \in 1..Len(out.sent) :
        LET messages == out.sent[i].payload.messages
            content  == messages[1].content
        IN  /\ Len(messages) = 1
            /\ messages[1].role = "user"
            /\ Cardinality({k \in 1..Len(content) : content[k].type = "image_url"}) = 1
            /\ Len(content) = 2
            /\ content[1].type = "image_url"
            /\ content[1].image_url[1] = "data:"
            /\ content[2].type = "text"
            /\ content[2].text # <<>>

C7_Witness == pc = "waiting" /\ Len(out.sent) = 1

(***************************************************************************)
(* C8.  Every started operation completes: a request in flight is answered,*)
(* fails, or is ended by the timeout after TIMEOUT seconds, and a request  *)
(* that timed out ends the operation with the timeout reported as an error.*)
(***************************************************************************)
C8_Completes ==
    /\ (pc = "waiting") ~> Done
    /\ [](pc = "waiting" => elapsed <= TIMEOUT)
    /\ [](Done /\ outcome.kind = "timeout"
            => /\ Len(out.errors) = 1
               /\ Mentions(out.errors[1], "Read timed out. (read timeout=")
               /\ Mentions(out.errors[1], ToString(TIMEOUT)))

C8_Witness == Done /\ outcome.kind = "timeout" /\ Len(out.errors) = 1

(***************************************************************************)
(* C9.  Two runs that differ only in the value of a non-empty credential   *)
(* and meet the same remote outcome display the same status, results and   *)
(* error messages; their requests differ in the Authorization header only, *)
(* and no displayed text holds the credential.                             *)
(***************************************************************************)
WithoutAuthorization(req) ==
    [url |-> req.url, ContentType |-> req.headers.ContentType,
     payload |-> req.payload, timeout |-> req.timeout]

C9_CredentialNotEchoed ==
    /\ api_key # "" => /\ twin.api_key # "" /\ twin.api_key # api_key
                       /\ twin.api_status = api_status
    /\ cur.op # "none" /\ cur.api_key # ""
        => /\ twin.out.status = out.status
           /\ twin.out.kind = out.kind
           /\ twin.out.outputs = out.outputs
           /\ twin.out.errors = out.errors
           /\ Len(twin.out.sent) = Len(out.sent)
           /\ \A i \in 1..Len(out.sent) :
                /\ WithoutAuthorization(twin.out.sent[i]) = WithoutAuthorization(out.sent[i])
                /\ out.sent[i].headers.Authorization = <<"Bearer ", cur.api_key>>
                /\ twin.out.sent[i].headers.Authorization = <<"Bearer ", OtherKey(cur.api_key)>>
           /\ ~AnyMentions(out.outputs, cur.api_key)
           /\ ~AnyMentions(out.errors, cur.api_key)

C9_Witness ==
    /\ Done /\ cur.api_key # "" /\ Len(out.sent) = 1
    /\ out.errors # <<>>
    /\ twin.out.errors = out.errors
    /\ twin.out.sent[1].headers.Authorization # out.sent[1].headers.Authorization

(***************************************************************************)
(* C10.  encode_image_to_base64 returns data:<mime>;base64,<payload>, with *)
(* <mime> decided by the extension alone, compared without regard to case: *)
(* jpg and jpeg give image/jpeg, png image/png, gif image/gif, webp        *)
(* image/webp, any other or no extension image/jpeg.                       *)
(***************************************************************************)
ExpectedMime(ext) ==
    CASE lower(ext) = <<"j", "p", "g">>      -> "image/jpeg"
      [] lower(ext) = <<"j", "p", "e", "g">> -> "image/jpeg"
      [] lower(ext) = <<"p", "n", "g">>      -> "image/png"
      [] lower(ext) = <<"g", "i", "f">>      -> "image/gif"
      [] lower(ext) = <<"w", "e", "b", "p">> -> "image/webp"
      [] OTHER                               -> "image/jpeg"

C10_MimeFromExtension ==
    enc_result # EncIdle /\ ~enc_result.raised
        => LET uri == enc_result.value
           IN  /\ Len(uri) >= 3
               /\ uri[1] = "data:"
               /\ uri[2] = ExpectedMime(enc_file.ext)
               /\ uri[3] = ";base64,"
               /\ SubSeq(uri, 4, Len(uri)) = b64encode(enc_file.data)
               /\ \A i \in 4..Len(uri) :
                    \E n \in 1..64 : uri[i] = B64Alphabet[n] \/ uri[i] = "="

C10_Witness ==
    /\ enc_result # EncIdle /\ ~enc_result.raised
    /\ enc_file.ext = <<"P", "N", "G">>
    /\ enc_result.value[2] = "image/png"

(***************************************************************************)
(* C14.  In the Gradio variant an operation without an image returns       *)
(* "Please upload an image." as its first output, for every credential: it *)
(* raises nothing, displays no error and sends no request; the four        *)
(* functions themselves answer an image_path of None the same way.         *)
(***************************************************************************)
C14_PleaseUpload ==
    /\ Done /\ variant = "gradio" /\ cur.image = None
        => /\ out.status = "returned"
           /\ Len(out.outputs) >= 1
           /\ out.outputs[1] = PleaseUpload
           /\ out.errors = <<>>
           /\ out.sent = <<>>
    /\ \A key \in Keys :
        \A r \in {analyze_image_real(None, "high", key, outcome),
                  extract_text_real(None, "auto", key, outcome),
                  vision_search_real(None, "web", key, outcome),
                  vision_chat_real(None, <<>>, key, outcome)} :
            /\ r.status = "returned"
            /\ r.outputs[1] = PleaseUpload
            /\ r.errors = <<>>
            /\ r.sent = <<>>

C14_Witness ==
    /\ Done /\ variant = "gradio" /\ cur.image = None /\ cur.api_key # ""
    /\ out.outputs[1] = PleaseUpload

(***************************************************************************)
(* C15.  The status line shows that a key is ready exactly when the        *)
(* current credential is non-empty, and the warning otherwise; every edit  *)
(* of the credential input sets the status from the new value ("API Key    *)
(* Ready" when it is non-empty); the credential the operations are given   *)
(* (in Streamlit the session credential) is the latest input value, also   *)
(* for a request in flight; and a step that is no edit leaves credential   *)
(* and status as they are.                                                 *)
(***************************************************************************)
ReadyStatuses == {"API Key Ready", "API Key Set"}

WarningStatus ==
    IF variant = "gradio" THEN "Enter API key for real AI"
    ELSE "Demo Mode - Enter API key for real AI"

C15_StatusFollowsCredential ==
    /\ [](/\ api_status \in ReadyStatuses <=> api_key # ""
          /\ api_key = "" => api_status = WarningStatus
          /\ api_key = api_key_input
          /\ pc = "waiting" => cur.api_key = api_key)
    /\ [][/\ api_key_input' # api_key_input
              => /\ api_key' = api_key_input'
                 /\ api_status' = IF api_key' # "" THEN "API Key Ready"
                                  ELSE WarningStatus
          /\ api_key_input' = api_key_input
              => /\ api_key' = api_key
                 /\ api_status' = api_status]_vars

C15_Witness ==
    /\ Done /\ out.status = "returned"
    /\ api_status = "API Key Ready"
    /\ cur.api_key # api_key
    /\ api_key = api_key_input

\* the sampler has run on the video and returned its frames
SamplerRan == video_pc # "idle" /\ video_out.kind \in {"running", "set"}

\* every selected frame of the video decodes
AllDecode == \A i \in 1..Len(selected) : decodes(video, selected[i])

(***************************************************************************)
(* C11.  When the video has no more frames than were asked for and every   *)
(* selected frame decodes, the sampler selects every index 0..T-1 and      *)
(* returns exactly T frames, numbered 1..T, frame n being original frame   *)
(* n-1.                                                                    *)
(***************************************************************************)
C11_NoSubsampling ==
    SamplerRan /\ video.totalFrames <= requestedCount /\ AllDecode
        => /\ selected = [i \in 1..video.totalFrames |-> i - 1]
           /\ Len(sampledFrames) = video.totalFrames
           /\ \A n \in 1..Len(sampledFrames) :
                /\ sampledFrames[n].index = n
                /\ sampledFrames[n].pixels.frame = n - 1

C11_Witness ==
    /\ SamplerRan /\ AllDecode
    /\ video.totalFrames >= 2
    /\ video.totalFrames < requestedCount
    /\ Len(sampledFrames) = video.totalFrames

(***************************************************************************)
(* C12.  When the video has more frames than were asked for, the selected  *)
(* indices are floor(i * T / R) for i in 0..R-1; the sampler returns at    *)
(* most R frames; the selected indices, and the original indices of the    *)
(* returned frames, never decrease and lie in 0..T-1.                      *)
(***************************************************************************)
C12_EvenlySpaced ==
    SamplerRan /\ video.totalFrames > requestedCount
        => LET T == video.totalFrames
               R == requestedCount
           IN  /\ Len(selected) = R
               /\ \A i \in 0..(R - 1) :
                    /\ selected[i + 1] * R <= i * T
                    /\ i * T < (selected[i + 1] + 1) * R
                    /\ selected[i + 1] \in 0..(T - 1)
               /\ \A i \in 1..(R - 1) : selected[i] <= selected[i + 1]
               /\ Len(sampledFrames) <= R
               /\ \A n \in 1..Len(sampledFrames) :
                    /\ sampledFrames[n].pixels.frame \in 0..(T - 1)
                    /\ n > 1 => sampledFrames[n - 1].pixels.frame
                                    <= sampledFrames[n].pixels.frame

C12_Witness ==
    /\ SamplerRan
    /\ requestedCount >= 3
    /\ video.totalFrames > requestedCount
    /\ selected[requestedCount] > requestedCount - 1
    /\ Len(sampledFrames) = requestedCount - 1

(***************************************************************************)
(* C13.  When a video run has produced its frame-analysis set, whichever   *)
(* selected frames failed to decode: the set has one entry for each        *)
(* selected frame that decoded, in that order, no more entries than were   *)
(* asked for, and frame numbers 1, 2, .. N without a gap.                  *)
(***************************************************************************)
DecodedSelected == {i \in 1..Len(selected) : decodes(video, selected[i])}

C13_ContiguousFrameNumbers ==
    video_pc = "done" /\ video_out.kind = "set"
        => /\ Len(frameAnalysisSet) = Len(sampledFrames)
           /\ Len(frameAnalysisSet) = Cardinality(DecodedSelected)
           /\ Len(frameAnalysisSet) <= requestedCount
           /\ \A n \in 1..Len(frameAnalysisSet) :
                /\ frameAnalysisSet[n].frameNumber = n
                /\ frameAnalysisSet[n].artifactRef = sampledFrames[n].pixels
                /\ decodes(video, frameAnalysisSet[n].artifactRef.frame)

C13_Witness ==
    /\ video_pc = "done" /\ video_out.kind = "set"
    /\ Len(frameAnalysisSet) >= 2
    /\ Len(frameAnalysisSet) < Len(selected)
    /\ ~decodes(video, selected[1])
    /\ frameAnalysisSet[1].frameNumber = 1

=============================================================================
